---------------------------- MODULE Spec2Model ----------------------------
(***************************************************************************)
(* The lending service of VRC-0002 (app/src/services/service.rs) as a      *)
(* state machine.                                                          *)
(*                                                                         *)
(* One action per handler segment.  A handler runs from its entry to its   *)
(* first `.await`, and from one reply to the next `.await` or to its end;  *)
(* between two segments of one message any other message may run.  A panic *)
(* ends the message and the runtime keeps none of the writes of the        *)
(* segment that panicked (every segment here writes only in its last       *)
(* lines, so a panicking segment leaves the ledger as it found it).        *)
(*                                                                         *)
(* Numbers are scaled: TLC has 32-bit integers, so the 1e18 fixed point,   *)
(* the u128 range, the year and the two capacity limits are small numbers  *)
(* that keep the relations of the source (MIN_COLLATERAL_RATIO is          *)
(* 150 * DECIMALS_FACTOR, sums can exceed U128_MAX, and so on).            *)
(***************************************************************************)
EXTENDS Integers, Sequences, FiniteSets, Bags, TLC

VARIABLES
    owner,               \* LendingState.owner
    collateral_token,    \* LendingState.collateral_token
    debt_token,          \* LendingState.debt_token
    base_interest_rate,  \* LendingState.base_interest_rate
    min_loan,            \* LendingState.min_loan
    max_loan,            \* LendingState.max_loan
    next_loan_id,        \* LendingState.next_loan_id
    loans,               \* LendingState.loans: loan id -> Loan
    user_loans,          \* LendingState.user_loans: account -> sequence of ids
    total_collateral,    \* LendingState.total_collateral
    total_principal,     \* LendingState.total_principal
    now,                 \* exec::block_timestamp()
    tasks,               \* the messages suspended at an `.await`
    last                 \* what the latest segment answered and dispatched

config == <<owner, collateral_token, debt_token, base_interest_rate, min_loan, max_loan>>
ledger == <<next_loan_id, loans, user_loans, total_collateral, total_principal>>
vars == <<config, ledger, now, tasks, last>>

---------------------------------------------------------------------------
(* Program constants, scaled.                                              *)

\* 1e18 in the source.
DECIMALS_FACTOR == 10
\* 150_000_000_000_000_000_000 in the source, i.e. 150 * DECIMALS_FACTOR.
MIN_COLLATERAL_RATIO == 150 * DECIMALS_FACTOR
\* 31_536_000 in the source.
SECONDS_PER_YEAR == 2
\* u128::MAX, the range of every amount.
U128_MAX == 16383
\* 10_000 in the source: the ledger's capacity checked by open_loan.
LOAN_LIMIT == 1
\* 100 in the source: the capacity of one account's index.
USER_LOAN_LIMIT == 2

---------------------------------------------------------------------------
(* Bounds of the model.                                                    *)

\* Accounts and signing keys are 1..NumActors; 0 is ActorId::zero().
NumActors == 2
\* block_timestamp runs from 0 to MaxTime.
MaxTime == 1
\* Messages that can be suspended at an `.await` at the same time.
MaxTasks == 2
\* Principals offered to open_loan are 0..MaxPrincipal.
MaxPrincipal == 1
\* Rates offered to the constructor and update_params are 0..MaxRate times
\* DECIMALS_FACTOR (0% to MaxRate * 100% a year).
MaxRate == 0
\* Loan thresholds offered to the constructor and update_params are
\* 0..MaxThreshold.
MaxThreshold == 2

Actors == 1..NumActors
ZeroActor == 0
CollateralTokenId == NumActors + 1
DebtTokenId == NumActors + 2
ProgramId == NumActors + 3

ActionsForSession == {"OpenLoan", "RepayLoan", "LiquidateLoan", "UpdateParams"}

\* What a caller can pass as session_for_account: None or Some(account).
NoAccount == 0 - 1
SessionForAccount == {NoAccount} \cup Actors

\* What the session map can hold for an account when a handler reads it.
NoSession == [key |-> ZeroActor, expires |-> 0, allowed_actions |-> {}]
SessionData ==
    [key : Actors, expires : {1, MaxTime + 1},
     allowed_actions : {ActionsForSession, {"LiquidateLoan"}}]
Sessions == {NoSession} \cup SessionData

PrincipalInputs == 0..MaxPrincipal
ThresholdInputs == 0..MaxThreshold
\* Zero, one less than the least collateral that covers principal 1, and the
\* least collateral that covers a principal p.
CollateralInputs == {0, 149} \cup {150 * p : p \in 1..MaxPrincipal}
RateInputs == {r * DECIMALS_FACTOR : r \in 0..MaxRate}

---------------------------------------------------------------------------
(* u128 arithmetic.  None is the None of checked_div and checked_add.      *)

None == 0 - 1

\* A product that does not fit giving 0.
saturating_mul_ZeroOnOverflow(a, b) == IF a * b > U128_MAX THEN 0 ELSE a * b

saturating_mul(a, b) == IF a * b > U128_MAX THEN U128_MAX ELSE a * b
saturating_add(a, b) == IF a + b > U128_MAX THEN U128_MAX ELSE a + b
saturating_sub(a, b) == IF a < b THEN 0 ELSE a - b
checked_div(a, b) == IF b = 0 THEN None ELSE a \div b
checked_add(a, b) == IF a + b > U128_MAX THEN None ELSE a + b
Max(a, b) == IF a >= b THEN a ELSE b

\* .checked_div(d).unwrap_or(0) applied to a value that is itself never None
div_or_zero(a, d) == IF checked_div(a, d) = None THEN 0 ELSE checked_div(a, d)

\* open_loan's and liquidate's ratio: collateral * 1e18 / divisor
CollateralRatio(collateral, divisor) ==
    checked_div(saturating_mul(collateral, DECIMALS_FACTOR), divisor)

\* repay's interest on a loan after `duration` seconds
Interest(principal, rate, duration) ==
    div_or_zero(
        div_or_zero(
            saturating_mul(saturating_mul(principal, rate), duration),
            SECONDS_PER_YEAR),
        DECIMALS_FACTOR)

\* The duration counted from timestamp 0, not from the loan's start.
TotalOwed_FromEpoch(loan, t) ==
    saturating_add(loan.principal, Interest(loan.principal, loan.interest_rate, t))

TotalOwed(loan, t) ==
    saturating_add(
        loan.principal,
        Interest(loan.principal, loan.interest_rate,
                 saturating_sub(t, loan.start_block)))

---------------------------------------------------------------------------
(* get_actor: the effective account of a call, or the panic it ends in.    *)
(* `session` is session_map.get(account), NoSession when there is none.    *)

AuthOk(who) == [ok |-> TRUE, who |-> who, err |-> "None"]
AuthErr(e) == [ok |-> FALSE, who |-> ZeroActor, err |-> e]

\* The expiry test accepting a session at the very timestamp it expires.
get_actor_ExpiryInclusive(session, msg_source, session_for_account, action) ==
    IF session_for_account = NoAccount THEN AuthOk(msg_source)
    ELSE IF session = NoSession THEN AuthErr("NoSession")
    ELSE IF ~(session.expires >= now) THEN AuthErr("SessionExpired")
    ELSE IF action \notin session.allowed_actions THEN AuthErr("ActionNotPermitted")
    ELSE IF session.key # msg_source THEN AuthErr("KeyMismatch")
    ELSE AuthOk(session_for_account)

get_actor(session, msg_source, session_for_account, action) ==
    IF session_for_account = NoAccount THEN AuthOk(msg_source)
    ELSE IF session = NoSession THEN AuthErr("NoSession")
    ELSE IF ~(session.expires > now) THEN AuthErr("SessionExpired")
    ELSE IF action \notin session.allowed_actions THEN AuthErr("ActionNotPermitted")
    ELSE IF session.key # msg_source THEN AuthErr("KeyMismatch")
    ELSE AuthOk(session_for_account)


\* A call as the handlers see it: msg::source(), session_for_account and the
\* session the map holds for that account.
Calls ==
    {c \in [src : Actors, sfa : SessionForAccount, session : Sessions] :
        c.sfa = NoAccount => c.session = NoSession}

Resolve(c, action) == get_actor(c.session, c.src, c.sfa, action)

\* What get_actor can answer a handler that asks for `action`.
Resolutions(action) == {Resolve(c, action) : c \in Calls}

---------------------------------------------------------------------------
(* Records.                                                                *)

Loan(borrower, collateral, principal, rate, start) ==
    [borrower |-> borrower, collateral |-> collateral, principal |-> principal,
     interest_rate |-> rate, start_block |-> start, status |-> "Active"]

\* An outbound ActionIo message: TransferFrom(from, to, amount),
\* Transfer(to, amount) or Burn(from, amount), and the token it is sent to.
NoRequest == [kind |-> "None", token |-> 0, from |-> 0, to |-> 0, amount |-> 0]
TransferFrom(token, from, to, amount) ==
    [kind |-> "TransferFrom", token |-> token, from |-> from, to |-> to, amount |-> amount]
Transfer(token, to, amount) ==
    [kind |-> "Transfer", token |-> token, from |-> 0, to |-> to, amount |-> amount]
Burn(token, from, amount) ==
    [kind |-> "Burn", token |-> token, from |-> from, to |-> 0, amount |-> amount]

\* A message suspended at an `.await`: the locals its future keeps.
\*   open_loan  stage 1 awaits the collateral transfer, stage 2 the debt mint
\*   repay      stage 1 awaits the burn, stage 2 the collateral transfer
\*   liquidate  stage 1 awaits the transfer to the owner
\* `stale` says that the `loan` reference taken by get_mut before the await
\* points into a table that an insert has since reallocated.
\* `tasks` is the bag of these (two messages can hold the same locals).
OpenTask(borrower, collateral, principal) ==
    [op |-> "open_loan", stage |-> 1, who |-> borrower, collateral |-> collateral,
     principal |-> principal, loan_id |-> 0, stale |-> FALSE]
LoanTask(op, borrower, loan_id) ==
    [op |-> op, stage |-> 1, who |-> borrower, collateral |-> 0, principal |-> 0,
     loan_id |-> loan_id, stale |-> FALSE]

Suspended == BagToSet(tasks)
Without(t) == tasks (-) SetToBag({t})
Replaced(t, u) == Without(t) (+) SetToBag({u})

\* What the segment just run answered, until the runtime has delivered it:
\* op is the handler and seg the segment (0 the entry, n the code after the
\* n-th await), res the panic, "Await" or the event emitted, sent the message
\* dispatched.  The runtime runs one segment at a time and delivers what it
\* produced before it runs the next.
NoAnswer == [op |-> "none", seg |-> 0, res |-> "None", sent |-> NoRequest]
Answer(op, seg, res, sent) == [op |-> op, seg |-> seg, res |-> res, sent |-> sent]
Ready == last = NoAnswer

\* A panic in the entry segment: nothing is kept, nothing is awaited.
Panic(op, err) ==
    /\ last' = Answer(op, 0, err, NoRequest)
    /\ UNCHANGED <<config, ledger, now, tasks>>

\* A panic in a later segment of task t: the message ends, the ledger is as
\* the segment found it.
Abort(t, err) ==
    /\ last' = Answer(t.op, t.stage, err, NoRequest)
    /\ tasks' = Without(t)
    /\ UNCHANGED <<config, ledger, now>>

\* The entry segment reaches its first await: the message is suspended.
\* send_bytes_with_gas_for_reply may refuse the message (sent_ok).
Dispatch(task, req) ==
    \E sent_ok \in BOOLEAN :
        IF ~sent_ok THEN Panic(task.op, "TransferError")
        ELSE /\ BagCardinality(tasks) < MaxTasks
             /\ tasks' = tasks (+) SetToBag({task})
             /\ last' = Answer(task.op, 0, "Await", req)
             /\ UNCHANGED <<config, ledger, now>>

\* A later segment reaches the next await.
Redispatch(t, req) ==
    \E sent_ok \in BOOLEAN :
        IF ~sent_ok THEN Abort(t, "TransferError")
        ELSE /\ tasks' = Replaced(t, [t EXCEPT !.stage = @ + 1])
             /\ last' = Answer(t.op, t.stage, "Await", req)
             /\ UNCHANGED <<config, ledger, now>>

---------------------------------------------------------------------------
(* seed and the constructor.                                               *)

SeedAccepts(ct, dt, mn, mx) ==
    /\ ~(ct = ZeroActor \/ dt = ZeroActor)
    /\ ~(mn = 0 \/ mx = 0 \/ mx < mn)

Init ==
    \E deployer \in Actors, ct \in {ZeroActor, CollateralTokenId},
       dt \in {ZeroActor, DebtTokenId}, rate \in RateInputs,
       mn \in ThresholdInputs, mx \in ThresholdInputs :
        /\ SeedAccepts(ct, dt, mn, mx)
        /\ owner = deployer
        /\ collateral_token = ct
        /\ debt_token = dt
        /\ base_interest_rate = rate
        /\ min_loan = mn
        /\ max_loan = mx
        /\ next_loan_id = 0
        /\ loans = << >>
        /\ user_loans = [a \in Actors |-> << >>]
        /\ total_collateral = 0
        /\ total_principal = 0
        /\ now = 0
        /\ tasks = EmptyBag
        /\ last = NoAnswer

---------------------------------------------------------------------------
(* open_loan                                                               *)

\* The validation of the entry segment, in the order of the source: the
\* panic it ends in, or "Ok".  `a` is what get_actor answered.
OpenLoanCheck(a, collateral, principal) ==
    IF ~a.ok THEN a.err
    ELSE IF principal < min_loan \/ principal > max_loan THEN "PrincipalOutOfBounds"
    ELSE IF collateral = 0 THEN "ZeroCollateral"
    ELSE IF CollateralRatio(collateral, principal) = None THEN "DivisionError"
    ELSE IF CollateralRatio(collateral, principal) < MIN_COLLATERAL_RATIO
        THEN "InsufficientCollateral"
    ELSE IF Cardinality(DOMAIN loans) >= LOAN_LIMIT THEN "LoanLimitReached"
    ELSE "Ok"

\* Entry to the first await: validate, dispatch the collateral transfer.
open_loan(a, collateral, principal) ==
    IF OpenLoanCheck(a, collateral, principal) # "Ok"
        THEN Panic("open_loan", OpenLoanCheck(a, collateral, principal))
    ELSE Dispatch(OpenTask(a.who, collateral, principal),
                  TransferFrom(collateral_token, a.who, ProgramId, collateral))

\* The reply to the collateral transfer not looked at.
open_loan_mint_ReplyIgnored(t, reply_ok) ==
    Redispatch(t, TransferFrom(debt_token, ProgramId, t.who, t.principal))

\* After the collateral transfer replied: dispatch the debt transfer.
open_loan_mint(t, reply_ok) ==
    IF ~reply_ok THEN Abort(t, "TransferError")
    ELSE Redispatch(t, TransferFrom(debt_token, ProgramId, t.who, t.principal))

\* HashMap::insert
Insert(map, key, value) ==
    [k \in DOMAIN map \cup {key} |-> IF k = key THEN value ELSE map[k]]

\* next_loan_id left as it was (the increment forgotten).
NextLoanId_Stuck(id) == id

NextLoanId(id) == id + 1

\* The capacity check off by one.
UserIndexFull_OffByOne(index) == Len(index) > USER_LOAN_LIMIT

UserIndexFull(index) == Len(index) >= USER_LOAN_LIMIT

\* The `loan` references that suspended repay and liquidate messages hold
\* point into the table of `loans`; an insert may reallocate the table
\* (moved), and then every one of them dangles.
Dangling(u, moved) ==
    IF moved /\ u.op \in {"repay", "liquidate"} THEN [u EXCEPT !.stale = TRUE] ELSE u

AfterInsert(rest, moved) ==
    LET marked == {Dangling(u, moved) : u \in BagToSet(rest)}
        Copies(v) ==
            (IF v \in BagToSet(rest) THEN rest[v] ELSE 0)
            + (IF v.stale /\ moved /\ [v EXCEPT !.stale = FALSE] \in BagToSet(rest)
                   THEN rest[[v EXCEPT !.stale = FALSE]] ELSE 0)
    IN  [v \in marked |-> Copies(v)]

\* The id pushed to the index read from next_loan_id after its increment.
open_loan_commit_IdAfterIncrement(t, reply_ok, moved) ==
    LET loan_id == next_loan_id
        loan == Loan(t.who, t.collateral, t.principal, base_interest_rate, now)
    IN  IF ~reply_ok THEN Abort(t, "TransferError")
        ELSE IF UserIndexFull(user_loans[t.who])
            THEN Abort(t, "UserLoanLimitReached")
        ELSE IF checked_add(total_collateral, t.collateral) = None
            THEN Abort(t, "Overflow")
        ELSE IF checked_add(total_principal, t.principal) = None
            THEN Abort(t, "Overflow")
        ELSE /\ loans' = Insert(loans, loan_id, loan)
             /\ user_loans' = [user_loans EXCEPT
                                    ![t.who] = Append(@, NextLoanId(next_loan_id))]
             /\ next_loan_id' = NextLoanId(next_loan_id)
             /\ total_collateral' = checked_add(total_collateral, t.collateral)
             /\ total_principal' = checked_add(total_principal, t.principal)
             /\ tasks' = AfterInsert(Without(t), moved)
             /\ last' = Answer("open_loan", 2, "LoanOpened", NoRequest)
             /\ UNCHANGED <<config, now>>

\* After the debt transfer replied: the commit.  moved is whether the insert
\* reallocates the table.
open_loan_commit(t, reply_ok, moved) ==
    LET loan_id == next_loan_id
        loan == Loan(t.who, t.collateral, t.principal, base_interest_rate, now)
    IN  IF ~reply_ok THEN Abort(t, "TransferError")
        ELSE IF UserIndexFull(user_loans[t.who])
            THEN Abort(t, "UserLoanLimitReached")
        ELSE IF checked_add(total_collateral, t.collateral) = None
            THEN Abort(t, "Overflow")
        ELSE IF checked_add(total_principal, t.principal) = None
            THEN Abort(t, "Overflow")
        ELSE /\ loans' = Insert(loans, loan_id, loan)
             /\ user_loans' = [user_loans EXCEPT ![t.who] = Append(@, loan_id)]
             /\ next_loan_id' = NextLoanId(next_loan_id)
             /\ total_collateral' = checked_add(total_collateral, t.collateral)
             /\ total_principal' = checked_add(total_principal, t.principal)
             /\ tasks' = AfterInsert(Without(t), moved)
             /\ last' = Answer("open_loan", 2, "LoanOpened", NoRequest)
             /\ UNCHANGED <<config, now>>

---------------------------------------------------------------------------
(* repay and liquidate                                                     *)

\* The status check testing for one settled status only.
IsActive_NotLiquidated(loan) == loan.status # "Liquidated"

IsActive(loan) == loan.status = "Active"

\* A read of loan.collateral or loan.principal through the `loan` reference
\* of a suspended message: the field, or, through a dangling reference,
\* whatever the freed table holds by then.
GarbageReads == {0, U128_MAX}
ReadThrough(t, field) ==
    IF t.stale THEN {loans[t.loan_id][field]} \cup GarbageReads
    ELSE {loans[t.loan_id][field]}

\* The write loan.status = status through that reference: into the map, or,
\* through a dangling reference, into the freed table.
WriteStatus(t, status) ==
    IF t.stale THEN loans
    ELSE [loans EXCEPT ![t.loan_id].status = status]

\* The checks of repay without the comparison with loan.borrower.
RepayCheck_AnyAccount(a, loan_id) ==
    IF ~a.ok THEN a.err
    ELSE IF loan_id \notin DOMAIN loans THEN "NoSuchLoan"
    ELSE IF ~IsActive(loans[loan_id]) THEN "LoanNotActive"
    ELSE "Ok"

RepayCheck(a, loan_id) ==
    IF ~a.ok THEN a.err
    ELSE IF loan_id \notin DOMAIN loans THEN "NoSuchLoan"
    ELSE IF loans[loan_id].borrower # a.who THEN "NotLoanOwner"
    ELSE IF ~IsActive(loans[loan_id]) THEN "LoanNotActive"
    ELSE "Ok"

\* The collateral returned first, before the debt is burned.
repay_CollateralFirst(a, loan_id) ==
    IF RepayCheck(a, loan_id) # "Ok" THEN Panic("repay", RepayCheck(a, loan_id))
    ELSE Dispatch(LoanTask("repay", a.who, loan_id),
                  Transfer(collateral_token, a.who, loans[loan_id].collateral))

\* Entry to the first await: authorize, compute the debt, dispatch the burn.
repay(a, loan_id) ==
    IF RepayCheck(a, loan_id) # "Ok" THEN Panic("repay", RepayCheck(a, loan_id))
    ELSE Dispatch(LoanTask("repay", a.who, loan_id),
                  Burn(debt_token, a.who, TotalOwed(loans[loan_id], now)))

\* After the burn replied: dispatch the return of the collateral.
repay_return(t, reply_ok) ==
    IF ~reply_ok THEN Abort(t, "TransferError")
    ELSE \E amount \in ReadThrough(t, "collateral") :
            Redispatch(t, Transfer(collateral_token, t.who, amount))

\* The commit of repay (Closed, "Repaid") and of liquidate (Liquidated,
\* "Liquidated"): subtract from the aggregates, write the status.
Settle(t, status, event) ==
    /\ \E c \in ReadThrough(t, "collateral") :
            total_collateral' = saturating_sub(total_collateral, c)
    /\ \E p \in ReadThrough(t, "principal") :
            total_principal' = saturating_sub(total_principal, p)
    /\ loans' = WriteStatus(t, status)
    /\ tasks' = Without(t)
    /\ last' = Answer(t.op, t.stage, event, NoRequest)
    /\ UNCHANGED <<config, next_loan_id, user_loans, now>>

\* After the collateral transfer replied: the commit.
repay_commit(t, reply_ok) ==
    IF ~reply_ok THEN Abort(t, "TransferError")
    ELSE Settle(t, "Closed", "Repaid")

\* The ratio test refusing only loans strictly above the minimum ratio.
LiquidateCheck_Strict(loan_id) ==
    IF loan_id \notin DOMAIN loans THEN "NoSuchLoan"
    ELSE IF ~IsActive(loans[loan_id]) THEN "LoanNotActive"
    ELSE IF CollateralRatio(loans[loan_id].collateral,
                            Max(loans[loan_id].principal, 1)) = None
        THEN "DivisionError"
    ELSE IF CollateralRatio(loans[loan_id].collateral,
                            Max(loans[loan_id].principal, 1)) > MIN_COLLATERAL_RATIO
        THEN "LoanSafe"
    ELSE "Ok"

LiquidateCheck(loan_id) ==
    IF loan_id \notin DOMAIN loans THEN "NoSuchLoan"
    ELSE IF ~IsActive(loans[loan_id]) THEN "LoanNotActive"
    ELSE IF CollateralRatio(loans[loan_id].collateral,
                            Max(loans[loan_id].principal, 1)) = None
        THEN "DivisionError"
    ELSE IF CollateralRatio(loans[loan_id].collateral,
                            Max(loans[loan_id].principal, 1)) >= MIN_COLLATERAL_RATIO
        THEN "LoanSafe"
    ELSE "Ok"

\* Entry to the await: anyone may call; dispatch the collateral to the owner.
liquidate(loan_id) ==
    IF LiquidateCheck(loan_id) # "Ok" THEN Panic("liquidate", LiquidateCheck(loan_id))
    ELSE Dispatch(LoanTask("liquidate", loans[loan_id].borrower, loan_id),
                  Transfer(collateral_token, owner, loans[loan_id].collateral))

\* After the transfer to the owner replied: the commit.
liquidate_commit(t, reply_ok) ==
    IF ~reply_ok THEN Abort(t, "TransferError")
    ELSE Settle(t, "Liquidated", "Liquidated")

---------------------------------------------------------------------------
(* set_owner and update_params                                             *)

\* The comparison with state.owner left out.
OwnerCheck_AnyAccount(a) ==
    IF ~a.ok THEN a.err
    ELSE "Ok"

OwnerCheck(a) ==
    IF ~a.ok THEN a.err
    ELSE IF a.who # owner THEN "NotOwner"
    ELSE "Ok"

set_owner(a, new_owner) ==
    IF OwnerCheck(a) # "Ok" THEN Panic("set_owner", OwnerCheck(a))
    ELSE /\ owner' = new_owner
         /\ last' = Answer("set_owner", 0, "OwnerSet", NoRequest)
         /\ UNCHANGED <<collateral_token, debt_token, base_interest_rate,
                        min_loan, max_loan, ledger, now, tasks>>

\* The new rate applied to the loans already in the ledger as well.
update_params_RepricesLoans(a, new_rate, mn, mx) ==
    IF OwnerCheck(a) # "Ok" THEN Panic("update_params", OwnerCheck(a))
    ELSE /\ base_interest_rate' = new_rate
         /\ min_loan' = mn
         /\ max_loan' = mx
         /\ loans' = [l \in DOMAIN loans |-> [loans[l] EXCEPT !.interest_rate = new_rate]]
         /\ last' = Answer("update_params", 0, "ParamsUpdated", NoRequest)
         /\ UNCHANGED <<owner, collateral_token, debt_token, next_loan_id,
                        user_loans, total_collateral, total_principal, now, tasks>>

update_params(a, new_rate, mn, mx) ==
    IF OwnerCheck(a) # "Ok" THEN Panic("update_params", OwnerCheck(a))
    ELSE /\ base_interest_rate' = new_rate
         /\ min_loan' = mn
         /\ max_loan' = mx
         /\ last' = Answer("update_params", 0, "ParamsUpdated", NoRequest)
         /\ UNCHANGED <<owner, collateral_token, debt_token, ledger, now, tasks>>

---------------------------------------------------------------------------
(* The runtime: replies and time.                                          *)

\* The reply to the message that task t awaits arrives (reply_ok) or is an
\* error or a timeout (~reply_ok), and the handler runs its next segment.
\* (liquidate's segment is here and not an action of its own: no loan that
\* open_loan admits passes LiquidateCheck, so it never runs.)
handle_reply(t, reply_ok, moved) ==
    CASE t.op = "open_loan" /\ t.stage = 1 -> open_loan_mint(t, reply_ok)
      [] t.op = "open_loan" /\ t.stage = 2 -> open_loan_commit(t, reply_ok, moved)
      [] t.op = "repay" /\ t.stage = 1 -> repay_return(t, reply_ok)
      [] t.op = "repay" /\ t.stage = 2 -> repay_commit(t, reply_ok)
      [] t.op = "liquidate" -> liquidate_commit(t, reply_ok)

\* The runtime delivers what the segment produced: the reply or the error to
\* the caller, the event, the dispatched message.
Deliver ==
    /\ ~Ready
    /\ last' = NoAnswer
    /\ UNCHANGED <<config, ledger, now, tasks>>

\* A block passes.
Tick ==
    /\ Ready
    /\ now < MaxTime
    /\ now' = now + 1
    /\ UNCHANGED <<config, ledger, tasks, last>>

\* One step of the program and its runtime.  `moves` is what an insert into
\* `loans` may do to the table: BOOLEAN when it may reallocate it.
Step(moves) ==
    \/ /\ Ready
       /\ \E a \in Resolutions("OpenLoan"), collateral \in CollateralInputs,
             principal \in PrincipalInputs :
                open_loan(a, collateral, principal)
    \/ /\ Ready
       /\ \E a \in Resolutions("RepayLoan"), loan_id \in 0..next_loan_id :
                repay(a, loan_id)
    \/ /\ Ready
       /\ \E loan_id \in 0..next_loan_id :
                liquidate(loan_id)
    \/ /\ Ready
       /\ \E a \in Resolutions("UpdateParams"), new_owner \in Actors :
                set_owner(a, new_owner)
    \/ /\ Ready
       /\ \E a \in Resolutions("UpdateParams"), new_rate \in RateInputs,
             mn \in ThresholdInputs, mx \in ThresholdInputs :
                update_params(a, new_rate, mn, mx)
    \/ /\ Ready
       /\ \E t \in Suspended, reply_ok \in BOOLEAN, moved \in moves :
                handle_reply(t, reply_ok, moved)
    \/ Deliver
    \/ Tick

Next == Step(BOOLEAN)

Spec == Init /\ [][Next]_vars

\* The behaviours of Spec in which no insert reallocates the table, so that
\* no `loan` reference ever dangles.
NextInPlace == Step({FALSE})

SpecInPlace == Init /\ [][NextInPlace]_vars

\* The program with the index of one borrower full and one more open_loan of
\* that borrower suspended at its collateral transfer: the state after three
\* open_loan(150, 1) calls of the borrower entered an empty ledger one after
\* the other, each suspended before the next entered, and two of them have
\* committed.
InitFullIndex ==
    \E deployer \in Actors, borrower \in Actors :
        /\ owner = deployer
        /\ collateral_token = CollateralTokenId
        /\ debt_token = DebtTokenId
        /\ base_interest_rate = 0
        /\ min_loan = 1
        /\ max_loan = 1
        /\ next_loan_id = 2
        /\ loans = [id \in {0, 1} |-> Loan(borrower, 150, 1, 0, 0)]
        /\ user_loans = [a \in Actors |-> IF a = borrower THEN <<0, 1>> ELSE << >>]
        /\ total_collateral = 300
        /\ total_principal = 2
        /\ now = 0
        /\ tasks = SetToBag({OpenTask(borrower, 150, 1)})
        /\ last = NoAnswer

SpecFullIndex == InitFullIndex /\ [][Next]_vars

\* The handlers that only resolve the caller and write the configuration,
\* with the runtime: the program as far as get_actor, set_owner and
\* update_params go (none of them reads the ledger or a suspended message).
NextConfig ==
    \/ /\ Ready
       /\ \E a \in Resolutions("UpdateParams"), new_owner \in Actors :
                set_owner(a, new_owner)
    \/ /\ Ready
       /\ \E a \in Resolutions("UpdateParams"), new_rate \in RateInputs,
             mn \in ThresholdInputs, mx \in ThresholdInputs :
                update_params(a, new_rate, mn, mx)
    \/ Deliver
    \/ Tick

SpecConfig == Init /\ [][NextConfig]_vars

\* The principals and the yearly rates of the loans that InitRepay draws: a
\* rate is any u128 the owner passed to update_params, a principal one that
\* open_loan admitted with collateral 150 * principal.
LoanPrincipals == {1, 3, 10}
LoanRates == {0, DECIMALS_FACTOR \div 2, DECIMALS_FACTOR, 15, U128_MAX}

\* The program with one Active loan in the ledger: the state after the owner
\* called update_params(rate, principal, principal) and a borrower's
\* open_loan(150 * principal, principal) committed at timestamp `start`, at
\* some timestamp from then on.
InitRepay ==
    \E deployer \in Actors, borrower \in Actors, principal \in LoanPrincipals,
       rate \in LoanRates, start \in 0..MaxTime, t \in 0..MaxTime :
        /\ start <= t
        /\ owner = deployer
        /\ collateral_token = CollateralTokenId
        /\ debt_token = DebtTokenId
        /\ base_interest_rate = rate
        /\ min_loan = principal
        /\ max_loan = principal
        /\ next_loan_id = 1
        /\ loans = [id \in {0} |-> Loan(borrower, 150 * principal, principal, rate, start)]
        /\ user_loans = [a \in Actors |-> IF a = borrower THEN <<0>> ELSE << >>]
        /\ total_collateral = 150 * principal
        /\ total_principal = principal
        /\ now = t
        /\ tasks = EmptyBag
        /\ last = NoAnswer

\* repay and the runtime.
NextRepay ==
    \/ /\ Ready
       /\ \E a \in Resolutions("RepayLoan"), loan_id \in 0..next_loan_id :
                repay(a, loan_id)
    \/ /\ Ready
       /\ \E t \in Suspended, reply_ok \in BOOLEAN :
                handle_reply(t, reply_ok, FALSE)
    \/ Deliver
    \/ Tick

SpecRepay == InitRepay /\ [][NextRepay]_vars

\* The program called directly (no sessions) with one kind of loan
\* (collateral 150, principal 1) and the thresholds left as they are, while
\* the owner moves the rate between 0 and 100% a year.
RateChoices == {0, DECIMALS_FACTOR}

NextRates ==
    \/ /\ Ready
       /\ \E w \in Actors : open_loan(AuthOk(w), 150, 1)
    \/ /\ Ready
       /\ \E w \in Actors, loan_id \in 0..next_loan_id : repay(AuthOk(w), loan_id)
    \/ /\ Ready
       /\ \E loan_id \in 0..next_loan_id : liquidate(loan_id)
    \/ /\ Ready
       /\ \E w \in Actors, new_owner \in Actors : set_owner(AuthOk(w), new_owner)
    \/ /\ Ready
       /\ \E w \in Actors, new_rate \in RateChoices :
                update_params(AuthOk(w), new_rate, min_loan, max_loan)
    \/ /\ Ready
       /\ \E t \in Suspended, reply_ok \in BOOLEAN, moved \in BOOLEAN :
                handle_reply(t, reply_ok, moved)
    \/ Deliver
    \/ Tick

SpecRates == Init /\ [][NextRates]_vars

---------------------------------------------------------------------------
(* Claims.                                                                 *)

RECURSIVE SumActive(_, _)
SumActive(ids, field) ==
    IF ids = {} THEN 0
    ELSE LET i == CHOOSE x \in ids : TRUE
         IN  (IF IsActive(loans[i]) THEN loans[i][field] ELSE 0)
             + SumActive(ids \ {i}, field)

\* C1: in every reachable state total_collateral is the sum of collateral
\* over the Active loans and total_principal the sum of their principal.
C1_AggregatesMatchActiveLoans ==
    /\ total_collateral = SumActive(DOMAIN loans, "collateral")
    /\ total_principal = SumActive(DOMAIN loans, "principal")

\* C2: the commit step of repay or liquidate (the aggregate subtraction and
\* the status write) only ever runs on a loan that is Active at that moment.
C2_CommitOnlyOnActiveLoan ==
    [][\A t \in Suspended :
            (\/ t.op = "repay" /\ t.stage = 2 /\ repay_commit(t, TRUE)
             \/ t.op = "liquidate" /\ liquidate_commit(t, TRUE))
            => IsActive(loans[t.loan_id])]_vars

\* C3: a repay by the borrower (directly or through a valid session) or a
\* liquidate by anyone on a loan that is Closed or Liquidated panics with
\* LoanNotActive in the entry segment: nothing is dispatched, no message is
\* suspended, and the loans, the indexes, next_loan_id and the aggregates
\* are unchanged.
C3_SettledLoanRejects ==
    [][\A l \in DOMAIN loans :
            loans[l].status \in {"Closed", "Liquidated"} =>
                /\ repay(AuthOk(loans[l].borrower), l)
                        => /\ last' = Answer("repay", 0, "LoanNotActive", NoRequest)
                           /\ UNCHANGED <<ledger, tasks>>
                /\ liquidate(l)
                        => /\ last' = Answer("liquidate", 0, "LoanNotActive", NoRequest)
                           /\ UNCHANGED <<ledger, tasks>>]_vars

\* Every loan of the ledger is Closed and a repay has just been refused with
\* LoanNotActive.
C3_Witness ==
    /\ DOMAIN loans # {}
    /\ \A l \in DOMAIN loans : loans[l].status = "Closed"
    /\ last = Answer("repay", 0, "LoanNotActive", NoRequest)

\* C4: in every reachable state the ids of the stored loans are exactly
\* 0 .. next_loan_id - 1: ids are handed out in order, without gaps or reuse,
\* whatever opens are suspended, fail or interleave.
C4_LoanIdsAreDense == DOMAIN loans = 0..(next_loan_id - 1)

\* Two opens that were suspended at the same time have both committed.
C4_Witness ==
    /\ next_loan_id = 2
    /\ DOMAIN loans = {0, 1}
    /\ last = Answer("open_loan", 2, "LoanOpened", NoRequest)

\* C5: every loan, at the step that commits it to the ledger, has
\* min_loan <= principal <= max_loan for the configuration of that moment,
\* collateral > 0 and collateral * 1e18 / principal >= MIN_COLLATERAL_RATIO,
\* also when update_params ran while the open_loan was suspended.  Stated for
\* the commits made under thresholds that seed would accept, so that it does
\* not rest on what update_params lets the thresholds be.
C5_CommittedLoanIsValid ==
    [][\A id \in (DOMAIN loans') \ (DOMAIN loans) :
        SeedAccepts(collateral_token, debt_token, min_loan, max_loan) =>
            /\ min_loan <= loans'[id].principal
            /\ loans'[id].principal <= max_loan
            /\ loans'[id].collateral > 0
            /\ CollateralRatio(loans'[id].collateral, loans'[id].principal)
                    >= MIN_COLLATERAL_RATIO]_vars

\* C6: the ledger never holds more than LOAN_LIMIT loans, whatever opens are
\* suspended at the same time.
C6_LedgerWithinLimit == Cardinality(DOMAIN loans) <= LOAN_LIMIT

\* C7: every account's index holds at most USER_LOAN_LIMIT ids, and an
\* open_loan that reaches its commit when its borrower's index is full
\* panics with UserLoanLimitReached and leaves loans, the indexes,
\* next_loan_id and the aggregates as they were.
C7_UserIndexWithinLimit ==
    [][/\ \A a \in Actors :
            /\ Len(user_loans[a]) <= USER_LOAN_LIMIT
            /\ Len(user_loans'[a]) <= USER_LOAN_LIMIT
       /\ \A t \in Suspended, moved \in BOOLEAN :
            (/\ t.op = "open_loan"
             /\ t.stage = 2
             /\ Len(user_loans[t.who]) >= USER_LOAN_LIMIT
             /\ open_loan_commit(t, TRUE, moved))
            => /\ last' = Answer("open_loan", 2, "UserLoanLimitReached", NoRequest)
               /\ UNCHANGED ledger]_vars

\* An open_loan has just been refused at its commit because the index of its
\* borrower was full.
C7_Witness ==
    /\ last = Answer("open_loan", 2, "UserLoanLimitReached", NoRequest)
    /\ \E a \in Actors : Len(user_loans[a]) = USER_LOAN_LIMIT
    /\ DOMAIN loans = 0..(next_loan_id - 1)

\* C8: in every reachable state the token addresses are not zero,
\* min_loan > 0, max_loan > 0 and min_loan <= max_loan.
C8_ConfigurationValid ==
    /\ collateral_token # ZeroActor
    /\ debt_token # ZeroActor
    /\ min_loan > 0
    /\ max_loan > 0
    /\ min_loan <= max_loan

\* C9: when the reply that a suspended open_loan, repay or liquidate awaits
\* is an error or does not come, or the next request is refused, the message
\* ends there with TransferError: it dispatches nothing more (no
\* compensating transfer either), emits no event, and the loans, the
\* indexes, next_loan_id and the aggregates are as they were; no segment
\* that ends at an await or in TransferError has written to them before.
C9_FailedTransferAborts ==
    [][/\ \A t \in Suspended, moved \in BOOLEAN :
            handle_reply(t, FALSE, moved)
            => /\ last' = Answer(t.op, t.stage, "TransferError", NoRequest)
               /\ tasks' = Without(t)
               /\ UNCHANGED <<config, ledger>>
       /\ last'.res \in {"Await", "TransferError"} => UNCHANGED ledger
       /\ last'.res = "TransferError" => last'.sent = NoRequest]_vars

\* An open_loan whose collateral transfer succeeded has just been aborted
\* because its debt transfer failed.
C9_Witness ==
    last = Answer("open_loan", 2, "TransferError", NoRequest)

\* C10: a repay of a stored loan whose caller is not its borrower and has no
\* valid session of the borrower (none, expired, without RepayLoan, bound to
\* another key, or a session of another account) panics in the entry segment
\* with an authorization error: no burn and no transfer is dispatched, no
\* message is suspended, and the loan and the aggregates are unchanged.
\* (Every step of repay's entry segment either is such a refusal or is the
\* step of no unauthorized call.)
C10_UnauthorizedRepayRejected ==
    [][(last'.op = "repay" /\ last'.seg = 0) =>
        \/ /\ last'.res \in {"NoSession", "SessionExpired", "ActionNotPermitted",
                             "KeyMismatch", "NotLoanOwner"}
           /\ last'.sent = NoRequest
           /\ UNCHANGED <<ledger, tasks>>
        \/ \A c \in Calls, l \in DOMAIN loans :
            LET delegated == c.sfa # NoAccount
                valid == /\ c.session # NoSession
                         /\ c.session.expires > now
                         /\ "RepayLoan" \in c.session.allowed_actions
                         /\ c.session.key = c.src
                effective == IF delegated THEN c.sfa ELSE c.src
                unauthorized == \/ delegated /\ ~valid
                                \/ effective # loans[l].borrower
            IN  ~(unauthorized /\ repay(Resolve(c, "RepayLoan"), l))]_vars

\* Every stored loan is Active and a repay by an account that is not the
\* borrower has just been refused.
C10_Witness ==
    /\ DOMAIN loans # {}
    /\ \A l \in DOMAIN loans : loans[l].status = "Active"
    /\ last = Answer("repay", 0, "NotLoanOwner", NoRequest)

\* C11: for every caller key, optional delegated account, session stored
\* for it, requested action and current time, get_actor answers what the
\* reference resolution answers: the caller key when no account is
\* delegated; otherwise NoSession when the account has no session, else
\* SessionExpired when now >= expiry, else ActionNotPermitted when the
\* action is not allowed, else KeyMismatch when the session's key is not
\* the caller key, else the delegated account.
C11_GetActorMatchesReference ==
    \A c \in Calls, action \in ActionsForSession :
        LET got == get_actor(c.session, c.src, c.sfa, action)
            fails(e) == ~got.ok /\ got.err = e
        IN  IF c.sfa = NoAccount THEN got.ok /\ got.who = c.src
            ELSE IF c.session = NoSession THEN fails("NoSession")
            ELSE IF now >= c.session.expires THEN fails("SessionExpired")
            ELSE IF ~(action \in c.session.allowed_actions)
                THEN fails("ActionNotPermitted")
            ELSE IF c.session.key # c.src THEN fails("KeyMismatch")
            ELSE got.ok /\ got.who = c.sfa

\* A handler has just refused a call with SessionExpired at a timestamp at
\* which a session of the model expires (now = expiry).
C11_Witness ==
    /\ last.res = "SessionExpired"
    /\ \E x \in SessionData : x.expires = now

\* C12: the configuration changes only in a successful set_owner or
\* update_params; either of them called with a resolved account that is not
\* the current owner panics with NotOwner and leaves the configuration as it
\* was; a successful set_owner(new) makes new the owner, so that afterwards
\* new, and no other account, passes the check.
C12_OnlyOwnerConfigures ==
    [][/\ config' # config
            => /\ last'.op \in {"set_owner", "update_params"}
               /\ last'.res \in {"OwnerSet", "ParamsUpdated"}
               /\ collateral_token' = collateral_token
               /\ debt_token' = debt_token
       /\ last'.op = "set_owner"
            => \A w \in Actors, new_owner \in Actors :
                /\ (w # owner /\ set_owner(AuthOk(w), new_owner))
                    => /\ last' = Answer("set_owner", 0, "NotOwner", NoRequest)
                       /\ UNCHANGED config
                /\ (w = owner /\ set_owner(AuthOk(w), new_owner))
                    => /\ last'.res = "OwnerSet"
                       /\ owner' = new_owner
                       /\ \A v \in Actors :
                            (OwnerCheck(AuthOk(v)) = "Ok")' <=> v = new_owner
       /\ last'.op = "update_params"
            => \A w \in Actors, r \in RateInputs,
                  mn \in ThresholdInputs, mx \in ThresholdInputs :
                (w # owner /\ update_params(AuthOk(w), r, mn, mx))
                    => /\ last' = Answer("update_params", 0, "NotOwner", NoRequest)
                       /\ UNCHANGED config]_vars

\* A set_owner by an account that is not the owner has just been refused.
C12_Witness ==
    last = Answer("set_owner", 0, "NotOwner", NoRequest)

\* C13: a liquidate of a stored loan that is Active panics with LoanSafe in
\* the entry segment: no transfer is dispatched, no message is suspended,
\* the loan and the aggregates are unchanged.  Every stored loan has
\* principal >= 1 and the ratio open_loan required of it, and no loan is
\* ever Liquidated.
C13_LiquidateAlwaysLoanSafe ==
    [][/\ last'.op = "liquidate"
            => \A l \in DOMAIN loans :
                (loans[l].status = "Active" /\ liquidate(l))
                => /\ last' = Answer("liquidate", 0, "LoanSafe", NoRequest)
                   /\ UNCHANGED <<ledger, tasks>>
       /\ loans' # loans
            => \A l \in DOMAIN loans' :
            /\ loans'[l].status # "Liquidated"
            /\ loans'[l].principal >= 1
            /\ saturating_mul(loans'[l].collateral, DECIMALS_FACTOR)
                    \div loans'[l].principal >= MIN_COLLATERAL_RATIO]_vars

\* Every stored loan is Active and a liquidate has just been refused with
\* LoanSafe.
C13_Witness ==
    /\ DOMAIN loans # {}
    /\ \A l \in DOMAIN loans : loans[l].status = "Active"
    /\ last = Answer("liquidate", 0, "LoanSafe", NoRequest)

\* C14: a repay of an Active loan at the timestamp at which it started
\* requests (unless the send is refused) a burn of exactly the principal, whatever the principal and the rate, also
\* when principal * rate saturates; and for every principal, rate and
\* timestamp not after the start the amount owed is the principal.
C14_NoInterestAtStart ==
    [][/\ last'.op = "repay"
            => \A l \in DOMAIN loans :
                (/\ loans[l].status = "Active"
                 /\ now <= loans[l].start_block
                 /\ repay(AuthOk(loans[l].borrower), l))
                => last' = Answer("repay", 0, "Await",
                                  Burn(debt_token, loans[l].borrower, loans[l].principal))
                   \/ (last'.res = "TransferError" /\ last'.sent = NoRequest)
       /\ \A principal \in LoanPrincipals, rate \in LoanRates,
             start \in 0..(MaxTime + 1), t \in 0..(MaxTime + 1) :
            t <= start => TotalOwed(Loan(ZeroActor, 0, principal, rate, start), t) = principal]_vars

\* A repay of a loan whose principal * rate saturates has just requested its
\* burn at the timestamp at which the loan started.
C14_Witness ==
    /\ 0 \in DOMAIN loans
    /\ loans[0].principal * loans[0].interest_rate > U128_MAX
    /\ loans[0].start_block = now
    /\ now > 0
    /\ last = Answer("repay", 0, "Await", Burn(debt_token, loans[0].borrower, loans[0].principal))

C15_EffectsInOrder ==
    [][/\ (last'.op = "open_loan" /\ last'.sent.kind = "TransferFrom"
                /\ last'.sent.from = ProgramId)
            => \E t \in Suspended :
                t.op = "open_loan" /\ t.stage = 1 /\ handle_reply(t, TRUE, FALSE)
       /\ DOMAIN loans' # DOMAIN loans
            => \E t \in Suspended, moved \in BOOLEAN :
                t.op = "open_loan" /\ t.stage = 2 /\ handle_reply(t, TRUE, moved)
       /\ (last'.op = "repay" /\ last'.sent.kind = "Transfer")
            => \E t \in Suspended :
                t.op = "repay" /\ t.stage = 1 /\ handle_reply(t, TRUE, FALSE)
       /\ loans' # loans
            => \A l \in DOMAIN loans :
                /\ (loans'[l].status = "Closed" /\ loans[l].status # "Closed")
                    => \E t \in Suspended :
                        /\ t.op = "repay" /\ t.stage = 2 /\ t.loan_id = l
                        /\ handle_reply(t, TRUE, FALSE)
                /\ (loans'[l].status = "Liquidated" /\ loans[l].status # "Liquidated")
                    => \E t \in Suspended :
                        /\ t.op = "liquidate" /\ t.stage = 1 /\ t.loan_id = l
                        /\ handle_reply(t, TRUE, FALSE)
       /\ tasks' # tasks
            => /\ \A u \in BagToSet(tasks') \ Suspended :
                    (u.stage = 2 /\ [u EXCEPT !.stale = FALSE] \notin Suspended)
                    => /\ last'.res = "Await"
                       /\ last'.seg = 1
                       /\ last'.sent.kind \in {"TransferFrom", "Transfer"}
               /\ \A t \in Suspended, moved \in BOOLEAN :
                    handle_reply(t, FALSE, moved)
                    => last'.sent = NoRequest /\ loans' = loans]_vars

\* A repay has just closed its loan, after its burn and its return of the
\* collateral were both answered.
C15_Witness ==
    /\ last = Answer("repay", 2, "Repaid", NoRequest)
    /\ \E l \in DOMAIN loans : loans[l].status = "Closed"

\* C16: an open_loan rejected for a validation reason (principal out of
\* bounds, zero collateral, insufficient collateral, ledger full, index of
\* the borrower full) is rejected in its entry segment, before any transfer
\* is requested: the rejected message was never suspended, and the ledger is
\* as it was.
C16_RejectedBeforeTransfers ==
    [][(/\ last'.op = "open_loan"
        /\ last'.res \in {"PrincipalOutOfBounds", "ZeroCollateral",
                          "InsufficientCollateral", "LoanLimitReached",
                          "UserLoanLimitReached"})
        => /\ last'.seg = 0
           /\ last'.sent = NoRequest
           /\ UNCHANGED <<ledger, tasks>>]_vars

\* C19: the burn for a loan succeeds at most once and is followed by the
\* loan being Closed.  A repay takes the successful reply to its burn only
\* when its loan is Active and no other repay of that loan has its burn
\* behind it, and a repay that has its burn behind it ends only by closing
\* the loan.
C19_BurnOnceThenClosed ==
    [][\A t \in Suspended :
        /\ (/\ t.op = "repay"
            /\ t.stage = 1
            /\ last'.res = "Await"
            /\ handle_reply(t, TRUE, FALSE))
            => /\ loans[t.loan_id].status = "Active"
               /\ ~ \E u \in Suspended :
                        u.op = "repay" /\ u.stage = 2 /\ u.loan_id = t.loan_id
        /\ (/\ t.op = "repay"
            /\ t.stage = 2
            /\ (handle_reply(t, TRUE, FALSE) \/ handle_reply(t, FALSE, FALSE)))
            => loans'[t.loan_id].status = "Closed"]_vars

\* C20: in every reachable state each stored loan id occurs exactly once in
\* the index of the loan's borrower and in no other index, every id of an
\* index is the id of a stored loan, and every index is in strictly
\* increasing order.
C20_IndexMatchesLoans ==
    /\ \A id \in DOMAIN loans, a \in Actors :
        Cardinality({i \in 1..Len(user_loans[a]) : user_loans[a][i] = id})
            = IF a = loans[id].borrower THEN 1 ELSE 0
    /\ \A a \in Actors : \A i \in 1..Len(user_loans[a]) :
        /\ user_loans[a][i] \in DOMAIN loans
        /\ \A j \in 1..Len(user_loans[a]) :
            i < j => user_loans[a][i] < user_loans[a][j]

\* One account has two loans in its index and a loan has just been opened.
C20_Witness ==
    /\ \E a \in Actors : Len(user_loans[a]) = 2
    /\ last.res = "LoanOpened"

\* C18: a stored loan is never removed, and its borrower, collateral,
\* principal, interest_rate and start_block never change: whatever a step
\* does to loans, every loan stored before is stored after with these five
\* fields as they were.  A loan takes the rate in force when it is
\* committed, and a step that changes the configuration leaves loans alone.
C18_LoanFieldsImmutable ==
    [][/\ loans' # loans
            => /\ \A l \in DOMAIN loans :
                    /\ l \in DOMAIN loans'
                    /\ loans'[l] = [loans[l] EXCEPT !.status = loans'[l].status]
               /\ \A id \in (DOMAIN loans') \ (DOMAIN loans) :
                    loans'[id].interest_rate = base_interest_rate
       /\ config' # config => loans' = loans]_vars

\* The owner has just changed the rate, and a loan committed before keeps
\* the rate it was committed with.
C18_Witness ==
    /\ last = Answer("update_params", 0, "ParamsUpdated", NoRequest)
    /\ \E l \in DOMAIN loans : loans[l].interest_rate # base_interest_rate

=============================================================================
